---- MODULE Spec2Model ----
(***************************************************************************)
(* The generation-status mechanism of the murder-mystery package service:  *)
(*   - the mystery_packages store (one row per package, several rows per   *)
(*     conversation possible, the most recently updated one is read);      *)
(*   - generateCompletePackage, the guarded trigger of the external        *)
(*     generation service;                                                 *)
(*   - getPackageGenerationStatus, the status reconciler with its          *)
(*     content-based auto-correction;                                      *)
(*   - the external generation service, which writes rows out of band.     *)
(* Every awaited store or network call is one step; the synchronous code   *)
(* that follows it up to the next await belongs to the same step.          *)
(***************************************************************************)
EXTENDS Integers, Sequences, FiniteSets, TLC

\* ---------------------------------------------------------------- bounds
MaxChars == 1           \* characters a package may own
MaxOperations == 3      \* operations started in one behaviour: calls of
                        \* generateCompletePackage and getPackageGenerationStatus,
                        \* writes of the external generation service
MaxStoreFaults == 1     \* store requests (reads or writes) that end in an error
MaxTicks == 2           \* steps of the browser clock within one view lifetime
MaxText == 2            \* characters in a field of a character

Callers == {1, 2}
Conversations == {"c1"}

\* ------------------------------------------------- GenerationStatus values
\* A stored generation_status is JSON: null, an object, or some other truthy
\* value.  Absent object fields: status "", progress -1, currentStep "",
\* resumable "undefined", sections the empty mapping.
EmptySections == [n \in {} |-> TRUE]

AllSectionsTrue ==
  [n \in {"hostGuide", "characters", "clues", "inspectorScript", "characterMatrix"} |-> TRUE]

InitialSections ==
  [n \in {"hostGuide", "characters", "clues", "inspectorScript", "characterMatrix", "solution"}
     |-> FALSE]

StatusObject(st, pr, step, res, sec, err) ==
  [kind |-> "object", status |-> st, progress |-> pr, currentStep |-> step,
   resumable |-> res, sections |-> sec, error |-> err]

NullStatus ==
  [kind |-> "null", status |-> "", progress |-> -1, currentStep |-> "",
   resumable |-> "undefined", sections |-> EmptySections, error |-> ""]

ScalarStatus ==
  [kind |-> "scalar", status |-> "", progress |-> -1, currentStep |-> "",
   resumable |-> "undefined", sections |-> EmptySections, error |-> ""]

initialStatus ==
  StatusObject("in_progress", 10, "Sending to external generation service...",
               "undefined", InitialSections, "")

sentStatus ==
  StatusObject("in_progress", 20, "Processing by external service...",
               "undefined", EmptySections, "")

failedTriggerStatus ==
  StatusObject("failed", 0, "Failed to trigger generation", "true", EmptySections,
               "webhookError")

failedUnexpectedStatus ==
  StatusObject("failed", 0, "Unexpected error during generation", "true", EmptySections,
               "error")

completedStatus ==
  StatusObject("completed", 100, "Package generation completed", "undefined",
               AllSectionsTrue, "")

\* What a call of getPackageGenerationStatus returns (interface GenerationStatus).
Result(st, pr, step, res, sec) ==
  [status |-> st, progress |-> pr, currentStep |-> step, resumable |-> res, sections |-> sec]

NoResult == Result("", 0, "", "undefined", EmptySections)

completedResult ==
  Result("completed", 100, "Package generation completed", "undefined", AllSectionsTrue)

inProgressStatus ==
  Result("in_progress", 50, "Package generation in progress...", "undefined", EmptySections)

defaultStatusInProgress ==
  Result("in_progress", 50, "Package generation in progress...", "undefined", EmptySections)

defaultStatus == Result("not_started", 0, "Not started", "undefined", EmptySections)

notStartedStatus == Result("not_started", 0, "Not started", "undefined", EmptySections)

errorStatusInProgress ==
  Result("in_progress", 50, "Error checking status", "undefined", EmptySections)

errorStatus == Result("not_started", 0, "Error checking status", "undefined", EmptySections)

\* ------------------------------------------------------------------ state
VARIABLES
  packages,      \* table mystery_packages: sequence of rows, a row's id is its index
  now,           \* the clock: the last timestamp handed out (new Date())
  gen,           \* gen[p]: the call of generateCompletePackage that caller p runs
  ops,           \* operations started so far
  triggerCalls,  \* payloads sent to the mystery-webhook-trigger function, in order
  rec,           \* the running call of getPackageGenerationStatus
  cur,           \* record of the last call of getPackageGenerationStatus
  prev,          \* record of the call before it
  ratchet,       \* "none": no call returned completed yet; "clean": one did and no
                 \* other writer wrote since it read the store; "dirty": one did
  overlapped,    \* two calls of generateCompletePackage were in flight at once
  faults,        \* store requests that ended in an error so far
  conversation,  \* the conversation's row in table conversations (its flags)
  view,          \* the mounted MysteryView: its state, its refs, what it has shown
  chk,           \* chk[0]: the initial load; chk[1], chk[2]: calls of
                 \* checkGenerationStatus in flight
  clock,         \* Date.now() in the view's browser, in milliseconds
  character,     \* the character handed to buildCharacterGuideContent
  guide,         \* what buildCharacterGuideContent returned for it
  save           \* the running call of saveStructuredPackageData

\* The variables the trigger and the reconciler never touch.
\* The character guide and the content save.
sideVars == <<character, guide, save>>

extVars == <<conversation, view, chk, clock, sideVars>>

vars == <<packages, now, gen, ops, triggerCalls, rec, cur, prev, ratchet, overlapped,
          faults, extVars>>

\* ------------------------------------------------------------------ store
Titles == {"", "X"}
HostGuides == {"", "Y"}
CharacterLists == UNION {[1..n -> {"a"}] : n \in 0..MaxChars}

Row(conv, gs, started, completed, title, hg, chars, updated) ==
  [conversation_id |-> conv, generation_status |-> gs,
   generation_started_at |-> started, generation_completed_at |-> completed,
   title |-> title, host_guide |-> hg, characters |-> chars, updated_at |-> updated]

\* The values a stored generation_status takes in the model: the ones this code
\* writes, and what an out-of-band writer can leave (null, an object with no or
\* an unknown status, a non-object).
StoredStatuses ==
  {NullStatus, ScalarStatus, initialStatus, failedUnexpectedStatus, completedStatus,
   StatusObject("", -1, "", "undefined", EmptySections, ""),
   StatusObject("queued", 5, "Queued", "undefined", EmptySections, "")}

\* .eq("conversation_id", id).order('updated_at', {ascending: false}).limit(1):
\* the ids the query may return; rows with equal updated_at come in any order.
LatestIds(pk, mysteryId) ==
  {i \in DOMAIN pk :
     /\ pk[i].conversation_id = mysteryId
     /\ \A j \in DOMAIN pk :
          pk[j].conversation_id = mysteryId => pk[j].updated_at <= pk[i].updated_at}

\* .maybeSingle(): 0 stands for "no row" (data: null).
MaybeLatest(pk, mysteryId) ==
  IF LatestIds(pk, mysteryId) = {} THEN {0} ELSE LatestIds(pk, mysteryId)

\* A store request answers with data (ok) or with an error object.
Answered(ok) ==
  IF ok THEN faults' = faults
  ELSE faults < MaxStoreFaults /\ faults' = faults + 1

\* ------------------------------------------- getPackageGenerationStatus
\* The row as the status query returns it.  The embedded aggregate
\* characters:mystery_characters(count) comes back as a one-element list that
\* holds the count, whatever the count is.
StatusQueryData(row) ==
  [generation_status |-> row.generation_status,
   generation_completed_at |-> row.generation_completed_at,
   generation_started_at |-> row.generation_started_at,
   title |-> row.title, host_guide |-> row.host_guide,
   characters |-> << [count |-> Len(row.characters)] >>]

NoData ==
  [generation_status |-> NullStatus, generation_completed_at |-> 0,
   generation_started_at |-> 0, title |-> "", host_guide |-> "",
   characters |-> << [count |-> 0] >>]

hasContent(data) == data.title # "" /\ data.host_guide # ""

hasCharacters(data) == Len(data.characters) > 0

contentComplete(data) == hasContent(data) /\ hasCharacters(data)

\* if (contentComplete && currentStatus && currentStatus.status !== 'completed')
needsCorrectionInProgressOnly(data) ==
  /\ contentComplete(data)
  /\ data.generation_status.status = "in_progress"

needsCorrection(data) ==
  /\ contentComplete(data)
  /\ data.generation_status.kind # "null"
  /\ data.generation_status.status # "completed"

\* Fallback when generation_status is missing or no object.
inferredStatusNoStart(data) ==
  IF data.generation_completed_at # 0 \/ contentComplete(data) THEN completedResult
  ELSE notStartedStatus

inferredStatus(data) ==
  IF data.generation_completed_at # 0 \/ contentComplete(data) THEN completedResult
  ELSE IF data.generation_started_at # 0 THEN inProgressStatus
  ELSE notStartedStatus

\* x || default for each field of the stored object.
normalizedStatus(status) ==
  Result(IF status.status # "" THEN status.status ELSE "not_started",
         IF status.progress = -1 \/ status.progress = 0 THEN 0 ELSE status.progress,
         IF status.currentStep # "" THEN status.currentStep ELSE "Unknown step",
         status.resumable,
         status.sections)

\* The value returned once currentStatus is settled.
statusResultInferred(data, currentStatus) == inferredStatus(data)

statusResult(data, currentStatus) ==
  IF currentStatus.kind # "object" THEN inferredStatus(data)
  ELSE normalizedStatus(currentStatus)

\* update({generation_status, generation_completed_at, updated_at})
\*   .eq("conversation_id", mysteryId)
correctedRowsTimestampsOnly(pk, mysteryId, t) ==
  [i \in DOMAIN pk |->
     IF pk[i].conversation_id = mysteryId
     THEN [pk[i] EXCEPT !.generation_completed_at = t, !.updated_at = t]
     ELSE pk[i]]

correctedRowsNoMatch(pk, mysteryId, t) == pk

correctedRowsNoCompletedAt(pk, mysteryId, t) ==
  [i \in DOMAIN pk |->
     IF pk[i].conversation_id = mysteryId
     THEN [pk[i] EXCEPT !.generation_status = completedStatus, !.updated_at = t]
     ELSE pk[i]]

correctedRows(pk, mysteryId, t) ==
  [i \in DOMAIN pk |->
     IF pk[i].conversation_id = mysteryId
     THEN [pk[i] EXCEPT !.generation_status = completedStatus,
                        !.generation_completed_at = t,
                        !.updated_at = t]
     ELSE pk[i]]

\* The spec's notion of complete content, on a stored row.
RowContentComplete(row) ==
  row.title # "" /\ row.host_guide # "" /\ Len(row.characters) > 0

\* The record of one call: the row it was handed (0: none), whether the read
\* and the corrective write were answered, the writes it made, the row's content
\* and stored status at the read, whether another writer wrote since the read,
\* and the ratchet as it stood when the call returned.
CallRecord(valid, out, row, readOk, wrote, writeOk, complete, stored, dirty, before) ==
  [valid |-> valid, out |-> out, row |-> row, readOk |-> readOk, wrote |-> wrote,
   writeOk |-> writeOk, complete |-> complete, stored |-> stored, dirty |-> dirty,
   before |-> before]

NoCall == CallRecord(FALSE, NoResult, 0, TRUE, 0, TRUE, FALSE, NullStatus, FALSE, "none")

\* Another writer than the reconciler wrote to the store.
Dirtied ==
  /\ cur' = IF cur.valid \/ rec.pc = "correct" THEN [cur EXCEPT !.dirty = TRUE] ELSE cur
  /\ ratchet' = IF ratchet = "none" THEN "none" ELSE "dirty"
  /\ UNCHANGED prev

RatchetAfter(out, dirty) ==
  IF out.status = "completed" THEN (IF dirty THEN "dirty" ELSE "clean") ELSE ratchet

\* The awaited select; everything up to the corrective update or the return.
StatusRead(mysteryId, ok) ==
  /\ rec.pc = "idle"
  /\ Answered(ok)
  /\ ops < MaxOperations
  /\ ops' = ops + 1
  /\ prev' = cur
  /\ \E id \in MaybeLatest(packages, mysteryId) :
       LET data == IF id = 0 THEN NoData ELSE StatusQueryData(packages[id])
           complete == id # 0 /\ RowContentComplete(packages[id])
           stored == IF id = 0 THEN NullStatus ELSE packages[id].generation_status
           call(out) == CallRecord(TRUE, out, id, ok, 0, TRUE, complete, stored, FALSE, ratchet)
       IN  IF ~ok
           THEN /\ cur' = call(errorStatus)
                /\ ratchet' = RatchetAfter(errorStatus, FALSE)
                /\ UNCHANGED rec
           ELSE IF id = 0
           THEN /\ cur' = call(defaultStatus)
                /\ ratchet' = RatchetAfter(defaultStatus, FALSE)
                /\ UNCHANGED rec
           ELSE IF needsCorrection(data)
           THEN /\ cur' = [call(NoResult) EXCEPT !.valid = FALSE]
                /\ rec' = [pc |-> "correct", mysteryId |-> mysteryId, data |-> data]
                /\ UNCHANGED ratchet
           ELSE /\ cur' = call(statusResult(data, data.generation_status))
                /\ ratchet' = RatchetAfter(statusResult(data, data.generation_status), FALSE)
                /\ UNCHANGED rec
  /\ UNCHANGED <<packages, now, gen, triggerCalls, overlapped>>
  /\ UNCHANGED extVars

\* The awaited corrective update and the return that follows it.
StatusCorrect(ok) ==
  /\ rec.pc = "correct"
  /\ Answered(ok)
  /\ LET currentStatus == IF ok THEN completedStatus ELSE rec.data.generation_status
         out == statusResult(rec.data, currentStatus)
     IN  /\ IF ok
            THEN /\ now' = now + 1
                 /\ packages' = correctedRows(packages, rec.mysteryId, now + 1)
            ELSE UNCHANGED <<packages, now>>
         /\ cur' = [cur EXCEPT !.valid = TRUE, !.out = out, !.wrote = 1, !.writeOk = ok,
                               !.before = ratchet]
         /\ ratchet' = RatchetAfter(out, cur.dirty)
  /\ rec' = [pc |-> "idle", mysteryId |-> rec.mysteryId, data |-> NoData]
  /\ UNCHANGED <<gen, ops, triggerCalls, prev, overlapped>>
  /\ UNCHANGED extVars

\* ---------------------------------------------- generateCompletePackage
LogEntry(op, status, ok) == [op |-> op, status |-> status, ok |-> ok]

Payload(mysteryId, testMode) == [conversationId |-> mysteryId, testMode |-> testMode]

\* One call: the arguments, the locals (packageId, the lookup's packageData as
\* found), what the guard read returned (guard) and what the store held then
\* (atGuard), the result, and the record of the call's requests: log (store
\* writes and the invocation, in order), sent (payloads), left (the status of
\* the call's row at the moment the call ended).
Call(pc, mysteryId, testMode, packageId, found, guard, atGuard, result, log, sent, left) ==
  [pc |-> pc, mysteryId |-> mysteryId, testMode |-> testMode, packageId |-> packageId,
   found |-> found, guard |-> guard, atGuard |-> atGuard, result |-> result, log |-> log,
   sent |-> sent, left |-> left]

NoCallYet == Call("idle", "c1", FALSE, 0, 0, "", "", "", <<>>, <<>>, NullStatus)

\* The test-mode argument each caller passes: the view calls with the default
\* (false), a second client with test mode on.
TestModeOf(p) == p # 1

\* existingPackage?.generation_status?.status
guardStatus(pk, id) ==
  IF id = 0 THEN "none"
  ELSE IF pk[id].generation_status.kind = "object" THEN pk[id].generation_status.status
  ELSE ""

\* The branch on the guard read: the result to return at once, or "" to go on.
guardDecisionNoInProgress(seen) ==
  IF seen = "completed" THEN "already_completed" ELSE ""

guardDecision(seen) ==
  IF seen = "error" THEN ""
  ELSE IF seen = "completed" THEN "already_completed"
  ELSE IF seen = "in_progress" THEN "already_in_progress"
  ELSE ""

\* update({generation_status, updated_at}).eq("id", packageId)
statusWritten(pk, packageId, gs, t) ==
  [i \in DOMAIN pk |->
     IF i = packageId
     THEN [pk[i] EXCEPT !.generation_status = gs, !.updated_at = t]
     ELSE pk[i]]

\* update({generation_status: initialStatus, generation_started_at, updated_at})
\*   .eq("id", packageId)
armedRows(pk, packageId, t) ==
  [i \in DOMAIN pk |->
     IF i = packageId
     THEN [pk[i] EXCEPT !.generation_status = initialStatus,
                        !.generation_started_at = t,
                        !.updated_at = t]
     ELSE pk[i]]

\* insert({conversation_id, generation_status: initialStatus, generation_started_at, ...})
insertedRows(pk, mysteryId, t) ==
  Append(pk, Row(mysteryId, initialStatus, t, 0, "", "", <<>>, t))

\* if (packageData) update ... else insert ...
initialRowsAlwaysInsert(pk, found, mysteryId, t) == insertedRows(pk, mysteryId, t)

initialRows(pk, found, mysteryId, t) ==
  IF found # 0 THEN armedRows(pk, found, t) ELSE insertedRows(pk, mysteryId, t)

\* The status written once the webhook call has returned without error.
afterInvokeStatusCompleted == completedStatus

afterInvokeStatus == sentStatus

\* The status written in the catch block.
catchStatusNotResumable ==
  StatusObject("failed", 0, "Unexpected error during generation", "undefined",
               EmptySections, "error")

catchStatus == failedUnexpectedStatus

\* body of the invocation
invokeBody(mysteryId, testMode) == Payload(mysteryId, testMode)

\* The value a started call returns.
Started == "Package generation started successfully"

\* The call ends (return or rejection) with the store holding rows.
Finish(p, result, log, rows) ==
  gen' = [gen EXCEPT ![p].pc = "idle", ![p].result = result, ![p].log = log,
                     ![p].left = IF gen[p].packageId \in DOMAIN rows
                                 THEN rows[gen[p].packageId].generation_status
                                 ELSE NullStatus]

\* A write by generateCompletePackage that may or may not reach the store.
GenWritesDespiteError(ok, rows) ==
  /\ packages' = rows
  /\ now' = now + 1
  /\ Dirtied

GenWrites(ok, rows) ==
  IF ok
  THEN /\ packages' = rows
       /\ now' = now + 1
       /\ Dirtied
  ELSE UNCHANGED <<packages, now, cur, prev, ratchet>>

\* The duplicate-generation guard: the first awaited select and the branch on it.
GenGuard(p, mysteryId, testMode, ok) ==
  /\ gen[p].pc = "idle"
  /\ Answered(ok)
  /\ \A q \in Callers : q < p /\ gen[q].mysteryId = mysteryId => gen[q].pc # "idle"
  /\ ops < MaxOperations
  /\ ops' = ops + 1
  /\ overlapped' = (overlapped \/ \E q \in Callers \ {p} : gen[q].pc # "idle")
  /\ \E id \in MaybeLatest(packages, mysteryId) :
       LET seen == IF ok THEN guardStatus(packages, id) ELSE "error"
           decided == guardDecision(seen)
       IN  gen' = [gen EXCEPT ![p] =
                     Call(IF decided = "" THEN "conversation" ELSE "idle",
                          mysteryId, testMode, 0, 0, seen, guardStatus(packages, id),
                          decided, <<>>, <<>>, NullStatus)]
  /\ UNCHANGED <<packages, now, triggerCalls, rec, cur, prev, ratchet>>
  /\ UNCHANGED extVars

\* resumePackageGeneration: return generateCompletePackage(mysteryId)
resumePackageGenerationTestMode(p, mysteryId, ok) == GenGuard(p, mysteryId, TRUE, ok)

resumePackageGeneration(p, mysteryId, ok) == GenGuard(p, mysteryId, FALSE, ok)

\* select from conversations ... .single()
GenConversation(p, ok) ==
  /\ gen[p].pc = "conversation"
  /\ Answered(ok)
  /\ IF ok
     THEN gen' = [gen EXCEPT ![p].pc = "lookup"]
     ELSE Finish(p, "rejected", gen[p].log, packages)
  /\ UNCHANGED <<packages, now, ops, triggerCalls, rec, cur, prev, ratchet, overlapped>>
  /\ UNCHANGED extVars

\* select id of the latest package row
GenLookup(p, ok) ==
  /\ gen[p].pc = "lookup"
  /\ Answered(ok)
  /\ IF ok
     THEN \E id \in MaybeLatest(packages, gen[p].mysteryId) :
            gen' = [gen EXCEPT ![p].pc = "arm", ![p].found = id]
     ELSE Finish(p, "rejected", gen[p].log, packages)
  /\ UNCHANGED <<packages, now, ops, triggerCalls, rec, cur, prev, ratchet, overlapped>>
  /\ UNCHANGED extVars

\* The row is set (or created) in_progress, progress 10.  The update's error is
\* not looked at; the insert's error is thrown, with no packageId known.
GenArm(p, ok) ==
  /\ gen[p].pc = "arm"
  /\ Answered(ok)
  /\ GenWrites(ok, initialRows(packages, gen[p].found, gen[p].mysteryId, now + 1))
  /\ LET op == IF gen[p].found # 0 THEN "update" ELSE "insert"
         log == Append(gen[p].log, LogEntry(op, initialStatus, ok))
     IN  IF gen[p].found = 0 /\ ~ok
         THEN Finish(p, "rejected", log, packages)
         ELSE gen' = [gen EXCEPT ![p].pc = "invoke",
                                 ![p].packageId =
                                    IF gen[p].found # 0 THEN gen[p].found
                                    ELSE Len(packages) + 1,
                                 ![p].log = log]
  /\ UNCHANGED <<ops, triggerCalls, rec, overlapped>>
  /\ UNCHANGED extVars

\* supabase.functions.invoke('mystery-webhook-trigger', {body: {conversationId, testMode}})
GenInvoke(p, outcome) ==
  /\ gen[p].pc = "invoke"
  /\ triggerCalls' = Append(triggerCalls, invokeBody(gen[p].mysteryId, gen[p].testMode))
  /\ gen' = [gen EXCEPT ![p].pc = CASE outcome = "ok" -> "sent"
                                    [] outcome = "error" -> "failInner"
                                    [] OTHER -> "failCatch",
                        ![p].log = Append(@, LogEntry("invoke", NullStatus, outcome = "ok")),
                        ![p].sent = Append(@, invokeBody(gen[p].mysteryId, gen[p].testMode))]
  /\ UNCHANGED <<packages, now, ops, rec, cur, prev, ratchet, overlapped, faults>>
  /\ UNCHANGED extVars

\* if (webhookError): the row is set failed, then the error is thrown
GenFailInner(p, ok) ==
  /\ gen[p].pc = "failInner"
  /\ Answered(ok)
  /\ GenWrites(ok, statusWritten(packages, gen[p].packageId, failedTriggerStatus, now + 1))
  /\ gen' = [gen EXCEPT ![p].pc = "failCatch",
                        ![p].log = Append(@, LogEntry("update", failedTriggerStatus, ok))]
  /\ UNCHANGED <<ops, triggerCalls, rec, overlapped>>
  /\ UNCHANGED extVars

\* catch (e): the row is set failed (a packageId is known here), then rethrown
GenFailCatch(p, ok) ==
  /\ gen[p].pc = "failCatch"
  /\ Answered(ok)
  /\ LET rows == statusWritten(packages, gen[p].packageId, catchStatus, now + 1)
     IN  /\ GenWrites(ok, rows)
         /\ Finish(p, "rejected", Append(gen[p].log, LogEntry("update", catchStatus, ok)),
                   IF ok THEN rows ELSE packages)
  /\ UNCHANGED <<ops, triggerCalls, rec, overlapped>>
  /\ UNCHANGED extVars

\* The webhook was sent: progress 20, and the call returns.
GenSent(p, ok) ==
  /\ gen[p].pc = "sent"
  /\ Answered(ok)
  /\ LET rows == statusWritten(packages, gen[p].packageId, afterInvokeStatus, now + 1)
     IN  /\ GenWrites(ok, rows)
         /\ Finish(p, Started,
                   Append(gen[p].log, LogEntry("update", afterInvokeStatus, ok)),
                   IF ok THEN rows ELSE packages)
  /\ UNCHANGED <<ops, triggerCalls, rec, overlapped>>
  /\ UNCHANGED extVars

\* The steps of a call after its guard.
TriggerSteps(p) ==
  \/ \E ok \in BOOLEAN : GenConversation(p, ok)
  \/ \E ok \in BOOLEAN : GenLookup(p, ok)
  \/ \E ok \in BOOLEAN : GenArm(p, ok)
  \/ \E outcome \in {"ok", "error", "throw"} : GenInvoke(p, outcome)
  \/ \E ok \in BOOLEAN : GenFailInner(p, ok)
  \/ \E ok \in BOOLEAN : GenFailCatch(p, ok)
  \/ \E ok \in BOOLEAN : GenSent(p, ok)

\* ------------------------------------------- the external generation service
\* It writes content and/or status into the latest row of the conversation, out
\* of band and without regard to what this system is doing.
ExternalContent(cs) ==
  /\ ops < MaxOperations
  /\ \E id \in LatestIds(packages, "c1") :
       packages' = [packages EXCEPT ![id].title = "X", ![id].host_guide = "Y",
                                    ![id].characters = cs, ![id].updated_at = now + 1]
  /\ now' = now + 1
  /\ ops' = ops + 1
  /\ Dirtied
  /\ UNCHANGED <<gen, triggerCalls, rec, overlapped, faults>>
  /\ UNCHANGED extVars

ExternalStatus(gs) ==
  /\ ops < MaxOperations
  /\ \E id \in LatestIds(packages, "c1") :
       packages' = [packages EXCEPT
                      ![id].generation_status = gs,
                      ![id].generation_completed_at =
                         IF gs.status = "completed" THEN now + 1 ELSE @,
                      ![id].updated_at = now + 1]
  /\ now' = now + 1
  /\ ops' = ops + 1
  /\ Dirtied
  /\ UNCHANGED <<gen, triggerCalls, rec, overlapped, faults>>
  /\ UNCHANGED extVars

\* ------------------------------------------------------ the view (MysteryView)
\* The flags of a conversation row.
Flags(complete, paid, needs) ==
  [has_complete_package |-> complete, is_paid |-> paid, needs_package_generation |-> needs]

\* ------------------------------------------- buildCharacterGuideContent
\* A text is a sequence of characters: a letter, a backslash, the letter n, or
\* (in what the function adds) the newline NL and the fixed parts of the header.
NL == "\n"

Chars == {"a", "\\", "n"}

Texts == UNION {[1..k -> Chars] : k \in 0..MaxText}

\* The fields the function reads, in the order it reads them.
GuideFields ==
  <<"description", "background", "relationships", "rumors", "secret", "introduction",
    "round2_questions", "round2_innocent", "round2_guilty",
    "round3_questions", "round3_innocent", "round3_guilty",
    "round4_questions", "round4_innocent", "round4_guilty",
    "final_innocent", "final_guilty">>

\* The accomplice-branch columns of mystery_characters, which
\* saveStructuredPackageData fills.
AccompliceFields ==
  {"round2_accomplice", "round3_accomplice", "round4_accomplice", "final_accomplice"}

FieldNames ==
  {GuideFields[k] : k \in DOMAIN GuideFields} \cup {"character_name"} \cup AccompliceFields

\* A character with description D, background B, relationships R and secret S;
\* the empty text is an absent field.
Character(D, B, R, S) ==
  [f \in FieldNames |->
     CASE f = "character_name" -> <<"N">>
       [] f = "description" -> D
       [] f = "background" -> B
       [] f = "relationships" -> R
       [] f = "secret" -> S
       [] OTHER -> <<>>]

\* The character c with the round-2 accomplice text A.
Accomplice(c, A) == [c EXCEPT !.round2_accomplice = A]

\* The accomplice texts tried: none, or one that no other field holds.
AccompliceTexts == {<<>>, <<"c">>}

\* `# ${character.character_name} - Character Guide\n\n`
Header(name) == <<"# ">> \o name \o <<" - Character Guide", NL, NL>>

\* if (character.f) content += `${character.f}\n\n`
AppendedAlways(content, field) == content \o field \o <<NL, NL>>

Appended(content, field) ==
  IF field # <<>> THEN content \o field \o <<NL, NL>> ELSE content

\* content.replace(/\\n/g, '\n'): every backslash followed by n becomes a newline.
RECURSIVE Unescaped(_)
Unescaped(text) ==
  IF Len(text) < 2 THEN text
  ELSE IF text[1] = "\\" /\ text[2] = "n"
  THEN <<NL>> \o Unescaped(SubSeq(text, 3, Len(text)))
  ELSE <<text[1]>> \o Unescaped(Tail(text))

\* content after the first k fields.
RECURSIVE Concatenated(_, _)
Concatenated(c, k) ==
  IF k = 0 THEN Header(c.character_name)
  ELSE Appended(Concatenated(c, k - 1), c[GuideFields[k]])

buildCharacterGuideContent(c) == Unescaped(Concatenated(c, Len(GuideFields)))

NotBuilt == <<"not built">>

Build ==
  /\ guide = NotBuilt
  /\ guide' = buildCharacterGuideContent(character)
  /\ UNCHANGED <<packages, now, gen, ops, triggerCalls, rec, cur, prev, ratchet,
                 overlapped, faults, conversation, view, chk, clock, character, save>>

\* ----------------------------------------------- saveStructuredPackageData
\* generation_status as the save writes it.
savedStatus ==
  StatusObject("completed", 100, "Package generation completed", "undefined",
               EmptySections, "")

\* jsonData.characters || []: the lists a save may carry.
SavedLists == UNION {[1..k -> {"b"}] : k \in 0..MaxChars}

\* One call: where it waits, the package id, the characters it carries, the
\* characters the package had when the call looked it up.
Save(pc, packageId, characters, existing) ==
  [pc |-> pc, packageId |-> packageId, characters |-> characters, existing |-> existing]

NoSave == Save("idle", 0, <<>>, <<>>)

\* if (Array.isArray(normalizedData.characters) && normalizedData.characters.length > 0)
handlesCharactersAlways(list) == TRUE

handlesCharacters(list) == Len(list) > 0

saveFrame ==
  UNCHANGED <<gen, triggerCalls, rec, cur, prev, ratchet, overlapped, view, chk, clock,
              character, guide>>

\* The select of the latest package id is answered.
SaveLookup(list, ok) ==
  /\ save.pc \in {"idle", "done", "failed"}
  /\ ops < MaxOperations
  /\ ops' = ops + 1
  /\ Answered(ok)
  /\ \E id \in MaybeLatest(packages, "c1") :
       save' = IF ~ok THEN Save("failed", 0, list, <<>>)
               ELSE Save(IF id = 0 THEN "insert" ELSE "update", id, list,
                         IF id = 0 THEN <<>> ELSE packages[id].characters)
  /\ UNCHANGED <<packages, now, conversation>>
  /\ saveFrame

\* What follows the write of the package row.
AfterPackage == IF handlesCharacters(save.characters) THEN "delete" ELSE "conversation"

\* No package yet: the insert is answered.
SaveInsert(ok) ==
  /\ save.pc = "insert"
  /\ Answered(ok)
  /\ IF ok
     THEN /\ packages' = Append(packages,
                 Row("c1", savedStatus, 0, now + 1, "X", "Y", <<>>, now + 1))
          /\ now' = now + 1
          /\ save' = [save EXCEPT !.pc = AfterPackage, !.packageId = Len(packages) + 1]
     ELSE /\ save' = [save EXCEPT !.pc = "failed"]
          /\ UNCHANGED <<packages, now>>
  /\ UNCHANGED <<ops, conversation>>
  /\ saveFrame

\* The update of the existing package is answered.
SaveUpdate(ok) ==
  /\ save.pc = "update"
  /\ Answered(ok)
  /\ IF ok
     THEN /\ packages' = [packages EXCEPT ![save.packageId] =
                 [@ EXCEPT !.title = "X", !.host_guide = "Y",
                           !.generation_status = savedStatus,
                           !.generation_completed_at = now + 1,
                           !.updated_at = now + 1]]
          /\ now' = now + 1
          /\ save' = [save EXCEPT !.pc = AfterPackage]
     ELSE /\ save' = [save EXCEPT !.pc = "failed"]
          /\ UNCHANGED <<packages, now>>
  /\ UNCHANGED <<ops, conversation>>
  /\ saveFrame

\* delete().eq("package_id", packageId) is answered.
SaveDelete(ok) ==
  /\ save.pc = "delete"
  /\ Answered(ok)
  /\ packages' = IF ok THEN [packages EXCEPT ![save.packageId].characters = <<>>]
                 ELSE packages
  /\ save' = [save EXCEPT !.pc = IF ok THEN "characters" ELSE "failed"]
  /\ UNCHANGED <<now, ops, conversation>>
  /\ saveFrame

\* insert(charactersToInsert) is answered.
SaveCharacters(ok) ==
  /\ save.pc = "characters"
  /\ Answered(ok)
  /\ packages' = IF ok
                 THEN [packages EXCEPT ![save.packageId].characters = @ \o save.characters]
                 ELSE packages
  /\ save' = [save EXCEPT !.pc = IF ok THEN "conversation" ELSE "failed"]
  /\ UNCHANGED <<now, ops, conversation>>
  /\ saveFrame

\* The update of the conversation is answered; the call returns or throws.
SaveConversation(ok) ==
  /\ save.pc = "conversation"
  /\ Answered(ok)
  /\ conversation' = IF ok THEN Flags(TRUE, TRUE, FALSE) ELSE conversation
  /\ save' = [save EXCEPT !.pc = IF ok THEN "done" ELSE "failed"]
  /\ UNCHANGED <<packages, now, ops>>
  /\ saveFrame

saveStructuredPackageData ==
  \/ \E list \in SavedLists, ok \in BOOLEAN : SaveLookup(list, ok)
  \/ \E ok \in BOOLEAN : SaveInsert(ok)
  \/ \E ok \in BOOLEAN : SaveUpdate(ok)
  \/ \E ok \in BOOLEAN : SaveDelete(ok)
  \/ \E ok \in BOOLEAN : SaveCharacters(ok)
  \/ \E ok \in BOOLEAN : SaveConversation(ok)

\* One pass through fetchMystery or checkGenerationStatus: where it waits, how
\* it was started, generationStatus?.status as its closure holds it, and what
\* its reads returned (the package's id, 0 for none, and the three indicators).
Inst(pc, kind, previous, id, content, stored, conv, convRead, data) ==
  [pc |-> pc, kind |-> kind, previous |-> previous, id |-> id, content |-> content,
   stored |-> stored, conv |-> conv, convRead |-> convRead, data |-> data]

NoInst == Inst("idle", "", "", 0, FALSE, FALSE, FALSE, FALSE, NoData)

\* The view: mounted or not, its state and refs, the subscriptions it holds, and
\* what it has shown and received.
View(mounted, rows0) ==
  [mounted |-> mounted, generationStatus |-> NoResult, packageReadyNotified |-> FALSE,
   lastStatusCheck |-> 0, toasts |-> 0, pending |-> "none", delivered |-> 0,
   rows0 |-> rows0, reloading |-> FALSE,
   subscriptions |-> IF mounted THEN 1 ELSE 0]

\* No guide is asked for and no save runs.
InitSide ==
  /\ character = Character(<<>>, <<>>, <<>>, <<>>)
  /\ guide = NotBuilt
  /\ save = NoSave

\* No view is mounted.
InitExt ==
  /\ conversation = Flags(FALSE, FALSE, TRUE)
  /\ view = View(FALSE, 0)
  /\ chk = [i \in 0..2 |-> NoInst]
  /\ clock = 0
  /\ InitSide

\* if (now - lastStatusCheck.current < 10000) return generationStatus;
ThrottleMs == 10000

\* The step of the browser clock.
TickMs == 5000

\* setTimeout(() => window.location.reload(), 2000)
ReloadMs == 2000

\* The state of the trigger and of the standalone reconciler, and the guide and
\* the save, which the view's own steps leave alone.
coreVars == <<gen, triggerCalls, rec, cur, prev, ratchet, overlapped, sideVars>>

\* The completedStatus object that checkGenerationStatus builds.
viewSections == [n \in {"hostGuide", "characters", "clues"} |-> TRUE]

viewCompletedStatus ==
  Result("completed", 100, "Package generation completed", "false", viewSections)

viewCompletedStored ==
  StatusObject("completed", 100, "Package generation completed", "false", viewSections, "")

\* UPDATE events on mystery_packages for the conversation so far, the view's
\* own updates not counted: every timestamp handed out stamps one write, and a
\* write is an update unless it added a row.
Events == (now - 1) - (Len(packages) - view.rows0)

\* hasActualContent
hasActualContent(row) ==
  row.title # "" \/ row.host_guide # "" \/ row.generation_completed_at # 0

\* conversationIndicatesComplete
conversationIndicatesCompleteHasPackageOnly(ok) ==
  ok /\ conversation.has_complete_package

conversationIndicatesComplete(ok) ==
  ok /\ (conversation.has_complete_package \/ conversation.is_paid)

\* subscription.unsubscribe() in the effect's cleanup
unsubscribedNot(n) == n

unsubscribed(n) == n - 1

\* supabase.channel('mystery_packages').on(...).subscribe()
subscribed(n) == n + 1

\* setGenerationStatus(out) and the render that follows: when
\* generationStatus?.status has changed, checkGenerationStatus is a new function
\* and the subscription effect is cleaned up and run again.
Shown(v, out) ==
  [v EXCEPT !.generationStatus = out,
            !.subscriptions = IF out.status # v.generationStatus.status
                              THEN subscribed(unsubscribed(@)) ELSE @]

\* The call of checkGenerationStatus in slot i returns, leaving the view as v.
CheckReturn(i, v) ==
  /\ chk' = [chk EXCEPT ![i] = NoInst]
  /\ view' = v

\* The slot a new call of checkGenerationStatus runs in.  Calls are started
\* once fetchMystery has returned.
FreeSlot(i) == chk[i].pc = "idle" /\ \A j \in 1..2 : j < i => chk[j].pc # "idle"

\* if (now - lastStatusCheck.current < 10000)
throttledNever == FALSE

throttled == clock - view.lastStatusCheck < ThrottleMs

\* checkGenerationStatus up to its first await.  kind "event": the realtime
\* subscription's callback; kind "manual": handleManualRefresh.
CheckStart(i, kind) ==
  /\ view.mounted
  /\ i \in 1..2 /\ FreeSlot(i)
  /\ chk[0].pc = "done"
  /\ ops < MaxOperations
  /\ ops' = ops + 1
  /\ kind = "event" => view.delivered < Events
  /\ LET v == [view EXCEPT !.delivered = IF kind = "event" THEN @ + 1 ELSE @]
         inst == Inst("package", kind, view.generationStatus.status, 0, FALSE, FALSE,
                      FALSE, FALSE, NoData)
     IN  IF throttled
         THEN CheckReturn(i, v)
         ELSE /\ view' = [v EXCEPT !.lastStatusCheck = clock]
              /\ chk' = [chk EXCEPT ![i] = inst]
  /\ UNCHANGED <<packages, now, faults, conversation, clock>>
  /\ UNCHANGED coreVars

\* STEP 1: the select on mystery_packages is answered.
CheckPackage(i, ok) ==
  /\ view.mounted
  /\ chk[i].pc = "package"
  /\ Answered(ok)
  /\ \E id \in MaybeLatest(packages, "c1") :
       LET pid == IF ok THEN id ELSE 0
       IN  chk' = [chk EXCEPT ![i].pc = "conversation",
                              ![i].id = pid,
                              ![i].content = (pid # 0 /\ hasActualContent(packages[pid])),
                              ![i].stored = (pid # 0 /\
                                 packages[pid].generation_status.status = "completed")]
  /\ UNCHANGED <<packages, now, ops, conversation, view, clock>>
  /\ UNCHANGED coreVars

\* STEP 4 after the update of the row: setGenerationStatus(completedStatus) and
\* the test of previousStatus.
Forced(i, inst, v) ==
  LET shown == Shown(v, viewCompletedStatus)
  IN  IF inst.previous # "completed"
      THEN /\ chk' = [chk EXCEPT ![i] = [inst EXCEPT !.pc = "update"]]
           /\ view' = shown
      ELSE CheckReturn(i, shown)

\* STEP 2 and 3: the select on conversations is answered, the indicators are
\* computed, and the call goes on to STEP 4 or STEP 5.
CheckConversation(i, ok) ==
  /\ view.mounted
  /\ chk[i].pc = "conversation"
  /\ Answered(ok)
  /\ LET inst == [chk[i] EXCEPT !.conv = conversationIndicatesComplete(ok),
                                !.convRead = ok]
     IN  IF inst.content \/ inst.conv \/ inst.stored
         THEN IF inst.id # 0
              THEN /\ chk' = [chk EXCEPT ![i] = [inst EXCEPT !.pc = "force"]]
                   /\ UNCHANGED view
              ELSE Forced(i, inst, view)
         ELSE /\ chk' = [chk EXCEPT ![i] = [inst EXCEPT !.pc = "status"]]
              /\ UNCHANGED view
  /\ UNCHANGED <<packages, now, ops, conversation, clock>>
  /\ UNCHANGED coreVars

\* STEP 4: update({generation_status: completedStatus}).eq("id", packageData.id)
\* is answered; its error is not looked at.
CheckForce(i, ok) ==
  /\ view.mounted
  /\ chk[i].pc = "force"
  /\ Answered(ok)
  /\ packages' = IF ok
                 THEN [packages EXCEPT ![chk[i].id].generation_status = viewCompletedStored]
                 ELSE packages
  /\ Forced(i, chk[i], view)
  /\ UNCHANGED <<now, ops, conversation, clock>>
  /\ UNCHANGED coreVars

\* if (!packageReadyNotified.current)
notNotifiedAlways == TRUE

notNotified == ~view.packageReadyNotified

\* STEP 4, previousStatus !== 'completed': fetchStructuredPackageData, the update
\* of the conversation (error not looked at), and the success notification.
CheckUpdate(i, ok) ==
  /\ view.mounted
  /\ chk[i].pc = "update"
  /\ Answered(ok)
  /\ conversation' = IF ok THEN Flags(TRUE, TRUE, FALSE) ELSE conversation
  /\ IF notNotified
     THEN CheckReturn(i, [view EXCEPT !.packageReadyNotified = TRUE, !.toasts = @ + 1,
                                      !.reloading = TRUE])
     ELSE CheckReturn(i, view)
  /\ UNCHANGED <<packages, now, ops, clock>>
  /\ UNCHANGED coreVars

\* packageReadyNotified.current = false after a completed status: fetchMystery
\* has that line, STEP 5 of checkGenerationStatus has not.
resetsNotifiedAlways(i) == TRUE

resetsNotified(i) == i = 0

\* What the caller of getPackageGenerationStatus does with the value: i = 0 is
\* fetchMystery, the others are STEP 5 of checkGenerationStatus.
StatusReturned(i, out) ==
  LET shown == Shown(view, out)
      reset == IF out.status = "completed" /\ resetsNotified(i)
               THEN [shown EXCEPT !.packageReadyNotified = FALSE] ELSE shown
  IN  IF i # 0
      THEN CheckReturn(i, reset)
      ELSE IF out.status = "completed"
      THEN /\ view' = reset
           /\ chk' = [chk EXCEPT ![i].pc = "loadUpdate"]
      ELSE /\ view' = reset
           /\ chk' = [chk EXCEPT ![i].pc = "done"]

\* getPackageGenerationStatus called by the view: the select is answered.
ViewStatusRead(i, ok) ==
  /\ view.mounted
  /\ chk[i].pc = "status"
  /\ Answered(ok)
  /\ \E id \in MaybeLatest(packages, "c1") :
       LET data == IF id = 0 THEN NoData ELSE StatusQueryData(packages[id])
       IN  IF ~ok THEN StatusReturned(i, errorStatus)
           ELSE IF id = 0 THEN StatusReturned(i, defaultStatus)
           ELSE IF needsCorrection(data)
           THEN /\ chk' = [chk EXCEPT ![i].pc = "correct", ![i].data = data]
                /\ UNCHANGED view
           ELSE StatusReturned(i, statusResult(data, data.generation_status))
  /\ UNCHANGED <<packages, now, ops, conversation, clock>>
  /\ UNCHANGED coreVars

\* getPackageGenerationStatus called by the view: the corrective update is
\* answered.
ViewStatusCorrect(i, ok) ==
  /\ view.mounted
  /\ chk[i].pc = "correct"
  /\ Answered(ok)
  /\ IF ok
     THEN /\ now' = now + 1
          /\ packages' = correctedRows(packages, "c1", now + 1)
     ELSE UNCHANGED <<packages, now>>
  /\ StatusReturned(i, statusResult(chk[i].data,
                                    IF ok THEN completedStatus
                                    ELSE chk[i].data.generation_status))
  /\ UNCHANGED <<ops, conversation, clock>>
  /\ UNCHANGED coreVars

\* fetchMystery: the select on conversations is answered.
LoadConversation(ok) ==
  /\ view.mounted
  /\ chk[0].pc = "load"
  /\ Answered(ok)
  /\ chk' = [chk EXCEPT ![0].pc =
               IF ok /\ (conversation.needs_package_generation \/ conversation.is_paid
                         \/ conversation.has_complete_package)
               THEN "status" ELSE "done"]
  /\ UNCHANGED <<packages, now, ops, conversation, view, clock>>
  /\ UNCHANGED coreVars

\* fetchMystery, status completed: the update of the conversation is answered.
LoadUpdate(ok) ==
  /\ view.mounted
  /\ chk[0].pc = "loadUpdate"
  /\ Answered(ok)
  /\ conversation' = IF ok
                     THEN [conversation EXCEPT !.is_paid = TRUE, !.has_complete_package = TRUE]
                     ELSE conversation
  /\ chk' = [chk EXCEPT ![0].pc = "done"]
  /\ UNCHANGED <<packages, now, ops, view, clock>>
  /\ UNCHANGED coreVars

\* handleResumeGeneration up to its await: the flag is reset and
\* resumePackageGeneration is called.
handleResumeGeneration ==
  /\ view.mounted
  /\ view.pending = "none"
  /\ chk[0].pc = "done"
  /\ view' = [view EXCEPT !.packageReadyNotified = FALSE, !.pending = "resume",
                          !.toasts = 0]
  /\ UNCHANGED <<packages, now, ops, faults, conversation, chk, clock>>
  /\ UNCHANGED coreVars

\* handleGeneratePackage up to its await: the flag is reset and
\* generateCompletePackage is called.
handleGeneratePackage ==
  /\ view.mounted
  /\ view.pending = "none"
  /\ chk[0].pc = "done"
  /\ view' = [view EXCEPT !.packageReadyNotified = FALSE, !.pending = "generate"]
  /\ UNCHANGED <<packages, now, ops, faults, conversation, chk, clock>>
  /\ UNCHANGED coreVars

\* The call the handler made runs.
ViewTrigger ==
  /\ view.mounted
  /\ \/ /\ view.pending = "resume" /\ gen[1] = NoCallYet
        /\ \E ok \in BOOLEAN : resumePackageGeneration(1, "c1", ok)
     \/ /\ view.pending = "generate" /\ gen[1] = NoCallYet
        /\ \E ok \in BOOLEAN : GenGuard(1, "c1", FALSE, ok)
     \/ TriggerSteps(1)

\* Time passes; a pending reload comes first (it is due within ReloadMs).
Tick ==
  /\ view.mounted
  /\ ~view.reloading
  /\ ReloadMs < TickMs
  /\ clock < ThrottleMs + MaxTicks * TickMs
  /\ clock' = clock + TickMs
  /\ UNCHANGED <<packages, now, ops, faults, conversation, view, chk>>
  /\ UNCHANGED coreVars

\* The user leaves the page: the effect is cleaned up.  What the view's calls
\* in flight still do is not followed.
Unmount ==
  /\ view.mounted
  /\ ~view.reloading
  /\ view' = [view EXCEPT !.mounted = FALSE, !.subscriptions = unsubscribed(@)]
  /\ UNCHANGED <<packages, now, ops, faults, conversation, chk, clock>>
  /\ UNCHANGED coreVars

\* window.location.reload(): the view's lifetime ends, and the page with it.
Reload ==
  /\ view.mounted
  /\ view.reloading
  /\ view' = [view EXCEPT !.mounted = FALSE, !.reloading = FALSE, !.subscriptions = 0]
  /\ UNCHANGED <<packages, now, ops, faults, conversation, chk, clock>>
  /\ UNCHANGED coreVars

\* -------------------------------------------------------------- behaviour
InitialStores ==
  {<<>>} \cup
  {<<Row("c1", gs, st, ct, title, hg, cs, 1)>> :
     gs \in StoredStatuses, st \in {0, 1}, ct \in {0, 1},
     title \in Titles, hg \in HostGuides, cs \in CharacterLists}

\* The stores the reconciler is started on, with every setting of the flags.
InitStatus ==
  /\ packages \in InitialStores
  /\ now = 1
  /\ gen = [p \in Callers |-> NoCallYet]
  /\ ops = 0
  /\ triggerCalls = <<>>
  /\ rec = [pc |-> "idle", mysteryId |-> "c1", data |-> NoData]
  /\ cur = NoCall
  /\ prev = NoCall
  /\ ratchet = "none"
  /\ overlapped = FALSE
  /\ faults = 0
  /\ conversation \in {Flags(c, p, n) : c \in BOOLEAN, p \in BOOLEAN, n \in BOOLEAN}
  /\ view = View(FALSE, 0)
  /\ chk = [i \in 0..2 |-> NoInst]
  /\ clock = 0
  /\ InitSide

Init ==
  /\ packages \in InitialStores
  /\ now = 1
  /\ gen = [p \in Callers |-> NoCallYet]
  /\ ops = 0
  /\ triggerCalls = <<>>
  /\ rec = [pc |-> "idle", mysteryId |-> "c1", data |-> NoData]
  /\ cur = NoCall
  /\ prev = NoCall
  /\ ratchet = "none"
  /\ overlapped = FALSE
  /\ faults = 0
  /\ InitExt

\* The stores the trigger is started on: it reads the status and the id only.
TriggerStores ==
  {pk \in InitialStores :
     \A i \in DOMAIN pk :
       /\ pk[i].title = "" /\ pk[i].host_guide = "" /\ pk[i].characters = <<>>
       /\ pk[i].generation_started_at = 0 /\ pk[i].generation_completed_at = 0}

InitTrigger == Init /\ packages \in TriggerStores

Trigger(p) ==
  \/ \E m \in Conversations, ok \in BOOLEAN : GenGuard(p, m, TestModeOf(p), ok)
  \/ \E ok \in BOOLEAN : GenConversation(p, ok)
  \/ \E ok \in BOOLEAN : GenLookup(p, ok)
  \/ \E ok \in BOOLEAN : GenArm(p, ok)
  \/ \E outcome \in {"ok", "error", "throw"} : GenInvoke(p, outcome)
  \/ \E ok \in BOOLEAN : GenFailInner(p, ok)
  \/ \E ok \in BOOLEAN : GenFailCatch(p, ok)
  \/ \E ok \in BOOLEAN : GenSent(p, ok)

Reconcile ==
  \/ \E m \in Conversations, ok \in BOOLEAN : StatusRead(m, ok)
  \/ \E ok \in BOOLEAN : StatusCorrect(ok)

External ==
  \/ \E cs \in CharacterLists : ExternalContent(cs)
  \/ \E gs \in {completedStatus, NullStatus} : ExternalStatus(gs)

\* One client (the view) triggers and reconciles while the external service writes.
Next == Trigger(1) \/ Reconcile \/ External

Spec == Init /\ [][Next]_vars

\* Two conversations in the same state: the first is started, the second resumed.
ResumeStores ==
  {<<>>} \cup
  {<<Row("c1", gs, 0, 0, "", "", <<>>, 1), Row("c2", gs, 0, 0, "", "", <<>>, 1)>> :
     gs \in StoredStatuses}

InitResume ==
  /\ packages \in ResumeStores
  /\ now = 1
  /\ gen = [p \in Callers |-> NoCallYet]
  /\ ops = 0
  /\ triggerCalls = <<>>
  /\ rec = [pc |-> "idle", mysteryId |-> "c1", data |-> NoData]
  /\ cur = NoCall
  /\ prev = NoCall
  /\ ratchet = "none"
  /\ overlapped = FALSE
  /\ faults = 0
  /\ InitExt

NextResume ==
  \/ \E ok \in BOOLEAN : GenGuard(1, "c1", FALSE, ok)
  \/ \E ok \in BOOLEAN : resumePackageGeneration(2, "c2", ok)
  \/ \E p \in Callers : TriggerSteps(p)

SpecResume == InitResume /\ [][NextResume]_vars

\* The reconciler alone, called repeatedly.
SpecStatus == InitStatus /\ [][Reconcile]_vars

\* The stores a view is opened on: no row yet, a generation under way, content
\* saved with the status left behind, a failed generation, a finished one.
ViewStores ==
  {<<>>,
   <<Row("c1", initialStatus, 1, 0, "", "", <<>>, 1)>>,
   <<Row("c1", initialStatus, 1, 0, "X", "Y", <<"a">>, 1)>>,
   <<Row("c1", failedUnexpectedStatus, 1, 0, "", "", <<>>, 1)>>,
   <<Row("c1", completedStatus, 1, 1, "X", "Y", <<"a">>, 1)>>}

ViewFlags ==
  {Flags(FALSE, FALSE, FALSE), Flags(FALSE, FALSE, TRUE), Flags(FALSE, TRUE, TRUE),
   Flags(TRUE, FALSE, FALSE)}

\* The store and the flags as they go together when a view is opened.
ViewStates ==
  {st \in ViewStores \X ViewFlags :
     LET pk == st[1]
         fl == st[2]
     IN  \/ pk = <<>> /\ fl.needs_package_generation
         \/ pk # <<>> /\ pk[1].generation_status.status = "in_progress" /\ pk[1].title = ""
         \/ pk # <<>> /\ pk[1].generation_status.status = "in_progress" /\ pk[1].title # ""
              /\ fl = Flags(FALSE, TRUE, TRUE)
         \/ pk # <<>> /\ pk[1].generation_status.status = "failed"
              /\ fl = Flags(FALSE, TRUE, TRUE)
         \/ pk # <<>> /\ pk[1].generation_status.status = "completed"
              /\ fl = Flags(TRUE, FALSE, FALSE)}

\* A view has just been mounted: fetchMystery runs, the subscription is on.
InitView ==
  /\ \E st \in ViewStates : packages = st[1] /\ conversation = st[2]
  /\ now = 1
  /\ gen = [p \in Callers |-> NoCallYet]
  /\ ops = 0
  /\ triggerCalls = <<>>
  /\ rec = [pc |-> "idle", mysteryId |-> "c1", data |-> NoData]
  /\ cur = NoCall
  /\ prev = NoCall
  /\ ratchet = "none"
  /\ overlapped = FALSE
  /\ faults = 0
  /\ view = View(TRUE, Len(packages))
  /\ chk = [i \in 0..2 |-> IF i = 0 THEN [NoInst EXCEPT !.pc = "load"] ELSE NoInst]
  /\ clock = ThrottleMs
  /\ InitSide

checkGenerationStatus ==
  \/ \E i \in 1..2, kind \in {"event", "manual"} : CheckStart(i, kind)
  \/ \E i \in 1..2, ok \in BOOLEAN : CheckPackage(i, ok)
  \/ \E i \in 1..2, ok \in BOOLEAN : CheckConversation(i, ok)
  \/ \E i \in 1..2, ok \in BOOLEAN : CheckForce(i, ok)
  \/ \E i \in 1..2, ok \in BOOLEAN : CheckUpdate(i, ok)

fetchMystery ==
  \/ \E ok \in BOOLEAN : LoadConversation(ok)
  \/ \E ok \in BOOLEAN : LoadUpdate(ok)

NextView ==
  \/ checkGenerationStatus
  \/ fetchMystery
  \/ \E i \in 0..2, ok \in BOOLEAN : ViewStatusRead(i, ok)
  \/ \E i \in 0..2, ok \in BOOLEAN : ViewStatusCorrect(i, ok)
  \/ handleResumeGeneration
  \/ handleGeneratePackage
  \/ ViewTrigger
  \/ Tick
  \/ Unmount
  \/ Reload
  \/ ExternalContent(<<"a">>)
  \/ ExternalStatus(completedStatus)

\* One mounted view, the calls it makes, and the external service.
SpecView == InitView /\ [][NextView]_vars

\* The realtime subscription's callback runs for an event not yet delivered.
Delivery == \E i \in 1..2 : CheckStart(i, "event")

\* A request the view awaits is answered and the call goes on.
Answers ==
  \/ \E i \in 1..2, ok \in BOOLEAN : CheckPackage(i, ok)
  \/ \E i \in 1..2, ok \in BOOLEAN : CheckConversation(i, ok)
  \/ \E i \in 1..2, ok \in BOOLEAN : CheckForce(i, ok)
  \/ \E i \in 1..2, ok \in BOOLEAN : CheckUpdate(i, ok)
  \/ \E i \in 0..2, ok \in BOOLEAN : ViewStatusRead(i, ok)
  \/ \E i \in 0..2, ok \in BOOLEAN : ViewStatusCorrect(i, ok)
  \/ fetchMystery

\* The view when every event is delivered and every request is answered; the
\* user and the external service act or not as they like.
SpecViewLive == SpecView /\ WF_vars(Delivery) /\ WF_vars(Answers)

\* A conversation with an older package row besides its latest one: the older
\* row failed (with or without a completion timestamp), the latest is any row
\* of InitialStores.
HistoryStores ==
  {<<Row("c1", gs, 1, ct, "", "", <<>>, 1), [pk[1] EXCEPT !.updated_at = 2]>> :
     gs \in {failedUnexpectedStatus}, ct \in {0, 1}, pk \in InitialStores \ {<<>>}}

InitHistory ==
  /\ packages \in HistoryStores
  /\ now = 2
  /\ gen = [p \in Callers |-> NoCallYet]
  /\ ops = 0
  /\ triggerCalls = <<>>
  /\ rec = [pc |-> "idle", mysteryId |-> "c1", data |-> NoData]
  /\ cur = NoCall
  /\ prev = NoCall
  /\ ratchet = "none"
  /\ overlapped = FALSE
  /\ faults = 0
  /\ InitExt

\* The reconciler on a conversation with two package rows.
SpecHistory == InitHistory /\ [][Reconcile]_vars

\* buildCharacterGuideContent applied to one character.
InitGuide ==
  /\ packages = <<>>
  /\ now = 1
  /\ gen = [p \in Callers |-> NoCallYet]
  /\ ops = 0
  /\ triggerCalls = <<>>
  /\ rec = [pc |-> "idle", mysteryId |-> "c1", data |-> NoData]
  /\ cur = NoCall
  /\ prev = NoCall
  /\ ratchet = "none"
  /\ overlapped = FALSE
  /\ faults = 0
  /\ conversation = Flags(FALSE, FALSE, TRUE)
  /\ view = View(FALSE, 0)
  /\ chk = [i \in 0..2 |-> NoInst]
  /\ clock = 0
  /\ guide = NotBuilt
  /\ save = NoSave
  /\ character \in {Accomplice(Character(D, B, R, S), A) :
                       D \in Texts, B \in Texts, R \in {<<>>, <<"a">>}, S \in Texts,
                       A \in AccompliceTexts}

SpecGuide == InitGuide /\ [][Build]_vars

\* saveStructuredPackageData called repeatedly, with no other writer.
SpecSave == Init /\ [][saveStructuredPackageData]_vars

\* Two clients trigger at once.
NextTrigger == \E p \in Callers : Trigger(p)

SpecTrigger == InitTrigger /\ [][NextTrigger]_vars

\* ------------------------------------------------------------- properties
\* A call of getPackageGenerationStatus has returned and none is running.
Returned == rec.pc = "idle" /\ cur.valid

\* The returned call was handed a row whose content is complete.
ReadComplete == Returned /\ cur.readOk /\ cur.row # 0 /\ cur.complete

\* C1 (as stated): whenever the latest row has a non-empty title, a non-empty
\* host guide and at least one character, the call returns status completed,
\* whatever the stored status is.
C1_CompletedWhateverStored == ReadComplete => cur.out.status = "completed"

\* C1: on a row with complete content the call returns status completed whatever
\* the stored status is, except when the corrective update it issues fails on a
\* stored status object: then it returns that stored status.
C1_CompletedUnlessWriteFails ==
  ReadComplete =>
    IF cur.wrote = 1 /\ ~cur.writeOk /\ cur.stored.kind = "object"
    THEN cur.out = normalizedStatus(cur.stored)
    ELSE cur.out.status = "completed"

C1_Witness ==
  /\ ReadComplete
  /\ cur.stored.status = "failed"
  /\ cur.wrote = 1 /\ cur.writeOk
  /\ cur.out.status = "completed"

\* Two calls in a row on a row with complete content, both reads answered, and
\* no other writer from the first call's read to the second call's return.
Pair ==
  /\ Returned /\ prev.valid
  /\ prev.readOk /\ cur.readOk
  /\ prev.row # 0 /\ prev.complete
  /\ ~prev.dirty /\ ~cur.dirty

SameOutputOneWrite == cur.out = prev.out /\ prev.wrote + cur.wrote <= 1

\* C2 (as stated): two calls in a row with no other writer in between return the
\* same output and make at most one corrective write in total.
C2_Idempotent == Pair => SameOutputOneWrite

\* C2: two calls in a row with no other writer in between return the same output
\* and make at most one corrective write in total, provided no corrective write
\* fails.
C2_IdempotentUnlessWriteFails == Pair /\ prev.writeOk /\ cur.writeOk => SameOutputOneWrite

C2_Witness ==
  /\ Pair
  /\ prev.wrote = 1 /\ prev.writeOk
  /\ cur.wrote = 0
  /\ cur.out = prev.out
  /\ cur.out.status = "completed"

\* C3 (as stated): once a call has returned completed, every later call returns
\* completed, whatever happened in between.
C3_Ratchet == Returned /\ cur.before # "none" => cur.out.status = "completed"

\* C3: once a call has returned completed, a later call returns completed if its
\* read is answered and no other writer has written since the earlier call read
\* the store.
C3_RatchetUndisturbed ==
  Returned /\ cur.before = "clean" /\ cur.readOk /\ ~cur.dirty => cur.out.status = "completed"

C3_Witness ==
  /\ Returned /\ cur.before = "clean" /\ cur.readOk /\ ~cur.dirty
  /\ prev.valid /\ prev.wrote = 1 /\ prev.writeOk /\ prev.out.status = "completed"
  /\ cur.wrote = 0
  /\ cur.out.status = "completed"

\* C4: when the conversation has no row, the call returns status not_started
\* with progress 0 and writes nothing to the store.
C4_NoRowNotStarted ==
  Returned /\ cur.row = 0 =>
    /\ cur.out.status = "not_started"
    /\ cur.out.progress = 0
    /\ cur.wrote = 0

C4_Witness ==
  /\ Returned /\ cur.row = 0 /\ cur.readOk
  /\ packages = <<>>
  /\ cur.out = defaultStatus

\* The returned call was handed a row with complete content whose stored status
\* is not completed, and no other writer has written since.
Drift == ReadComplete /\ cur.stored.status # "completed" /\ ~cur.dirty

\* The row is stored as completed, with the completion timestamp of the write,
\* and the call returned exactly the stored value.
StoredCorrected ==
  /\ cur.wrote = 1
  /\ cur.out = completedResult
  /\ \A i \in DOMAIN packages :
       packages[i].conversation_id = rec.mysteryId =>
         /\ packages[i].generation_status = completedStatus
         /\ packages[i].generation_completed_at = now
         /\ packages[i].updated_at = now
         /\ normalizedStatus(packages[i].generation_status) = cur.out

\* C5 (as stated): when the content is complete and the stored status is not
\* completed, the call overwrites the stored row with the completed value and a
\* completion timestamp and returns exactly that value; the stored row matches
\* the returned value after the call.
C5_DriftCorrected == Drift => StoredCorrected

\* C5: the same, when the stored generation_status is not null and the
\* corrective update succeeds.
C5_DriftCorrectedWhenWritten ==
  Drift /\ cur.stored.kind # "null" /\ cur.writeOk => StoredCorrected

C5_Witness ==
  /\ Drift
  /\ cur.stored = initialStatus
  /\ cur.writeOk
  /\ StoredCorrected

\* The call of caller p invoked the webhook trigger.
Invoked(p) == gen[p].sent # <<>>

\* The call made no outbound call and wrote nothing.
NoEffects(p) == gen[p].log = <<>> /\ gen[p].sent = <<>>

\* C6 (as stated): a call of generateCompletePackage on a conversation whose
\* latest row is completed returns "already_completed" at once, with no outbound
\* call and no store write.
C6_CompletedNoEffects ==
  \A p \in Callers :
    gen[p].atGuard = "completed" =>
      gen[p].pc = "idle" /\ gen[p].result = "already_completed" /\ NoEffects(p)

\* C7 (as stated): of two calls made in quick succession on one conversation at
\* most one invokes the webhook trigger, however their store requests interleave
\* (no store request fails and no invocation fails).
C7_OneTrigger ==
  faults = 0 /\ (\A p \in Callers : \A k \in DOMAIN gen[p].log : gen[p].log[k].ok) =>
    Cardinality({p \in Callers : Invoked(p)}) <= 1

\* C7: a call whose guard read sees the row in_progress returns
\* "already_in_progress" at once, with no outbound call and no store write; so of
\* two calls the second invokes nothing when its guard read follows the first
\* call's in_progress write.
C7_GuardedTrigger ==
  \A p \in Callers :
    gen[p].guard = "in_progress" =>
      gen[p].pc = "idle" /\ gen[p].result = "already_in_progress" /\ NoEffects(p)

C7_Witness ==
  /\ gen[1].pc = "sent" /\ gen[1].atGuard = "none"
  /\ gen[2].guard = "in_progress" /\ gen[2].result = "already_in_progress"
  /\ NoEffects(2)
  /\ Len(triggerCalls) = 1

\* The call of caller p found no row at its guard and created one.
StartCall(p) ==
  /\ gen[p].atGuard = "none"
  /\ gen[p].log # <<>>
  /\ gen[p].log[1].op = "insert"

\* The requests of a start call come in order: the row is created in_progress at
\* progress 10; then the trigger is invoked, once, with {conversationId,
\* testMode}; the update to progress 20 follows a successful invocation only.
StartOrder(p) ==
  LET log == gen[p].log
  IN  /\ log[1] = LogEntry("insert", initialStatus, Len(log) > 1 \/ gen[p].pc # "idle")
      /\ Len(log) >= 2 =>
           /\ log[2].op = "invoke"
           /\ gen[p].sent = <<Payload(gen[p].mysteryId, gen[p].testMode)>>
      /\ \A k \in DOMAIN log :
           /\ log[k].op = "invoke" => k = 2
           /\ log[k].status.progress = 20 => k = 3 /\ log[2].ok
      /\ Len(log) < 2 => gen[p].sent = <<>>
      /\ gen[p].pc = "idle" /\ gen[p].result = Started =>
           Len(log) = 3 /\ log[2].ok /\ log[3].op = "update" /\ log[3].status = sentStatus

TriggerFailed(p) == \E k \in DOMAIN gen[p].log : gen[p].log[k].op = "invoke" /\ ~gen[p].log[k].ok

FailedResumable(gs) == gs.status = "failed" /\ gs.progress = 0 /\ gs.resumable = "true"

\* The call has rejected.
Rejected(p) == gen[p].pc = "idle" /\ gen[p].result = "rejected"

ActiveRows ==
  {i \in DOMAIN packages :
     guardStatus(packages, i) \notin {"completed", "failed"}}

\* C10 (as stated): a conversation has at most one active row, under any
\* sequence and interleaving of start calls.
C10_OneActiveRow == Cardinality(ActiveRows) <= 1

\* C10: a conversation has at most one active row as long as no two start calls
\* have been in flight at once.
C10_OneActiveRowSequential == ~overlapped => Cardinality(ActiveRows) <= 1

C10_Witness ==
  /\ ~overlapped
  /\ ops >= 2
  /\ gen[1].pc = "idle" /\ gen[1].result = "already_in_progress"
  /\ Len(packages) = 1
  /\ packages[1].generation_status = sentStatus
  /\ ActiveRows = {1}

\* The conversation's latest rows are stored as completed.
LatestCompleted ==
  \A i \in LatestIds(packages, rec.mysteryId) :
    packages[i].generation_status.status = "completed"

\* C11: when the latest row is stored as completed and the call reads it, the
\* call returns completed and writes nothing, so the row is still completed
\* after the call; and a corrective write that succeeds leaves every row of the
\* conversation completed.
C11_NeverDowngrades ==
  /\ Returned /\ cur.readOk /\ cur.row # 0 /\ cur.stored.status = "completed" =>
       /\ cur.out.status = "completed"
       /\ cur.wrote = 0
       /\ ~cur.dirty => LatestCompleted
  /\ Returned /\ cur.wrote = 1 /\ cur.writeOk /\ ~cur.dirty =>
       \A i \in DOMAIN packages :
         packages[i].conversation_id = rec.mysteryId =>
           packages[i].generation_status.status = "completed"

C11_Witness ==
  /\ Returned /\ cur.readOk /\ cur.row # 0
  /\ cur.stored = completedStatus
  /\ ~cur.complete
  /\ packages[cur.row].generation_completed_at = 0
  /\ ~cur.dirty
  /\ cur.out.status = "completed"
  /\ LatestCompleted

\* C12: when the store read fails the call returns not_started, progress 0, with
\* the step "Error checking status", and writes nothing.
C12_ReadFailureDefault ==
  Returned /\ ~cur.readOk =>
    /\ cur.out.status = "not_started"
    /\ cur.out.progress = 0
    /\ cur.out.currentStep = "Error checking status"
    /\ cur.wrote = 0

C12_Witness ==
  /\ Returned /\ ~cur.readOk
  /\ packages # <<>>
  /\ RowContentComplete(packages[1])
  /\ packages[1].generation_status = initialStatus
  /\ ~cur.dirty
  /\ cur.out = errorStatus
  /\ cur.wrote = 0

\* The start on "c1" and the resume on "c2" have both ended, one call each.
BothEnded ==
  /\ ops = 2
  /\ \A p \in Callers : gen[p].pc = "idle" /\ gen[p].result # ""
  /\ gen[1].mysteryId = "c1" /\ gen[2].mysteryId = "c2"

\* The store gave both calls the same answers.
SameAnswers ==
  /\ gen[1].guard = gen[2].guard
  /\ gen[1].atGuard = gen[2].atGuard
  /\ Len(gen[1].log) = Len(gen[2].log)
  /\ \A k \in DOMAIN gen[1].log : gen[1].log[k].ok = gen[2].log[k].ok

\* Same result, same writes, same outbound calls, same status left.
SameEffects ==
  /\ gen[1].result = gen[2].result
  /\ gen[1].log = gen[2].log
  /\ gen[1].left = gen[2].left
  /\ Len(gen[1].sent) = Len(gen[2].sent)
  /\ \A k \in DOMAIN gen[1].sent :
       /\ gen[1].sent[k].testMode = gen[2].sent[k].testMode
       /\ gen[1].sent[k].conversationId = "c1"
       /\ gen[2].sent[k].conversationId = "c2"

NoFailure ==
  faults = 0 /\ \A p \in Callers : \A k \in DOMAIN gen[p].log : gen[p].log[k].ok

\* C13: resumePackageGeneration on a conversation does what
\* generateCompletePackage does on a conversation in the same state: same guard
\* decision, same store writes, same outbound call, same result; on a failed row
\* it sets the row in_progress and invokes the trigger once.
C13_ResumeIsStart ==
  /\ BothEnded /\ SameAnswers => SameEffects
  /\ BothEnded /\ NoFailure /\ gen[1].atGuard = gen[2].atGuard => SameEffects
  /\ /\ gen[2].pc = "idle" /\ gen[2].atGuard = "failed" /\ gen[2].guard = "failed"
     /\ gen[2].mysteryId = "c2" /\ NoFailure
     => /\ gen[2].result = Started
        /\ Len(gen[2].sent) = 1
        /\ gen[2].left.status = "in_progress"

C13_Witness ==
  /\ BothEnded /\ NoFailure
  /\ gen[1].atGuard = "failed" /\ gen[2].atGuard = "failed"
  /\ SameEffects
  /\ gen[2].result = Started
  /\ gen[2].sent = <<Payload("c2", FALSE)>>
  /\ gen[2].left = sentStatus
  /\ Len(triggerCalls) = 2

\* The call read a row, wrote nothing, and nobody wrote since: the row is as read.
ReadOnly == Returned /\ cur.readOk /\ cur.row # 0 /\ cur.wrote = 0 /\ ~cur.dirty

\* The stored status field is absent or is none of the four known values.
Unrecognized(gs) == gs.status \notin {"not_started", "in_progress", "completed", "failed"}

FlagsComplete == conversation.has_complete_package \/ conversation.is_paid

C20_NoCharactersNotComplete ==
  /\ Returned /\ cur.readOk /\ cur.row # 0
  /\ packages[cur.row].title # "" /\ packages[cur.row].host_guide # ""
  /\ packages[cur.row].characters = <<>>
  /\ cur.stored.kind = "object" /\ cur.stored.status # "completed"
  => cur.wrote = 0 /\ cur.out.status = cur.stored.status

C15_EveryEventReconciles ==
  [][view'.delivered = view.delivered + 1 =>
       \E i \in 1..2 : chk[i].pc = "idle" /\ chk'[i].pc = "package"]_vars

\* The check in slot i gets the conversation's flags and one of them is set.
FlagsSeen(i) ==
  /\ chk[i].pc = "conversation" /\ chk'[i].pc # "conversation"
  /\ faults' = faults
  /\ conversation.has_complete_package \/ conversation.is_paid

\* The check in slot i, having seen a flag set, gets the answer to its update of
\* the row.
FlagsForced(i) == chk[i].pc = "force" /\ chk[i].conv /\ chk'[i].pc # "force"

\* C17: a check that reads has_complete_package = true or is_paid = true takes
\* the completion branch, whatever the row holds: it goes on to mark the row
\* completed or sets the view's status to completed, and never asks the
\* reconciler.
C17_FlagsAreCompletion ==
  [][\A i \in 1..2 :
       FlagsSeen(i) \/ FlagsForced(i) =>
         chk'[i].pc = "force" \/ view'.generationStatus.status = "completed"]_vars

C17_Witness ==
  \E i \in 1..2 :
    /\ chk[i].pc = "update"
    /\ chk[i].conv /\ ~chk[i].content /\ ~chk[i].stored
    /\ chk[i].id # 0
    /\ packages[chk[i].id].title = "" /\ packages[chk[i].id].host_guide = ""
    /\ view.generationStatus = viewCompletedStatus

\* The character has description, background and secret and no other field.
OnlyDBS ==
  /\ character.description # <<>> /\ character.background # <<>>
  /\ character.secret # <<>> /\ character.relationships = <<>>
  /\ character.round2_accomplice = <<>>

\* C16 (as stated): for a character with only description D, background B and
\* secret S, the guide is the header, then D, B and S in this order, each
\* followed by a blank line, and nothing else.
C16_Concatenation ==
  guide # NotBuilt /\ OnlyDBS =>
    guide = Header(character.character_name)
              \o character.description \o <<NL, NL>>
              \o character.background \o <<NL, NL>>
              \o character.secret \o <<NL, NL>>

\* The part of the guide a field gives: nothing when the field is absent, else
\* its text with every backslash-n made a newline, and a blank line.
GuidePart(field) == IF field = <<>> THEN <<>> ELSE Unescaped(field) \o <<NL, NL>>

\* C16: the guide is the header followed by the parts of the present fields in
\* the order description, background, relationships, secret, each part being
\* the field's text with every backslash-n replaced by a newline and followed by
\* a blank line; an absent field gives nothing.
C16_ConcatenationUnescaped ==
  guide # NotBuilt =>
    guide = Header(character.character_name)
              \o GuidePart(character.description)
              \o GuidePart(character.background)
              \o GuidePart(character.relationships)
              \o GuidePart(character.secret)

C16_Witness ==
  /\ guide # NotBuilt
  /\ OnlyDBS
  /\ character.description = <<"a", "\\">>
  /\ character.background = <<"n">>
  /\ character.secret = <<"\\", "n">>
  /\ guide = <<"# ", "N", " - Character Guide", NL, NL, "a", "\\", NL, NL, "n", NL, NL,
               NL, NL, NL>>

\* A save has returned without throwing.
Saved == save.pc = "done"

\* C18 (as stated): after every successful save the package's characters are
\* exactly the list the save carried.
C18_CharactersReplaced ==
  Saved => packages[save.packageId].characters = save.characters

\* C18: after a successful save that carried a non-empty character list the
\* package's characters are exactly that list; after one that carried an empty
\* list they are what they were before the save.
C18_CharactersReplacedWhenGiven ==
  Saved =>
    packages[save.packageId].characters =
      IF save.characters # <<>> THEN save.characters ELSE save.existing

C18_Witness ==
  /\ Saved
  /\ save.existing = <<"a">>
  /\ save.characters = <<"b">>
  /\ packages[save.packageId].characters = <<"b">>

\* The corrective update of the running call is answered with an error.
CorrectionFails == rec.pc = "correct" /\ rec'.pc = "idle" /\ faults' # faults

\* The call before the last one failed to correct, and the last one read the
\* same row with no other writer in between.
AfterFailedCorrection ==
  /\ Returned /\ prev.valid
  /\ prev.wrote = 1 /\ ~prev.writeOk /\ ~prev.dirty
  /\ cur.readOk /\ cur.row = prev.row

\* C21: when the corrective update fails the call still returns: it returns the
\* stored status object (absent fields defaulted), the store is as it was, and
\* the next call on the same row issues the correction again.
C21_FailedCorrectionRetried ==
  /\ [][CorrectionFails =>
          /\ packages' = packages
          /\ cur'.valid
          /\ rec.data.generation_status.kind = "object" =>
               cur'.out = normalizedStatus(rec.data.generation_status)]_vars
  /\ [](AfterFailedCorrection => cur.wrote = 1)

C21_Witness ==
  /\ AfterFailedCorrection
  /\ prev.out.status = "in_progress"
  /\ cur.wrote = 1 /\ cur.writeOk
  /\ cur.out.status = "completed"
  /\ packages[cur.row].generation_status = completedStatus

\* A call of checkGenerationStatus goes on to query the store.
CheckQueries == \E i \in 1..2 : chk[i].pc = "idle" /\ chk'[i].pc = "package"

\* An event is handed to checkGenerationStatus.
EventHandled == view'.delivered = view.delivered + 1

\* C22: a call of checkGenerationStatus queries the store only if at least
\* ThrottleMs have passed since the last call that did; a call made sooner
\* returns with the view's status, the running checks and both tables as they
\* were.
C22_RateLimit ==
  [][/\ CheckQueries => clock - view.lastStatusCheck >= ThrottleMs
     /\ CheckQueries => view'.lastStatusCheck = clock
     /\ EventHandled /\ clock - view.lastStatusCheck < ThrottleMs =>
          /\ chk' = chk
          /\ packages' = packages /\ conversation' = conversation /\ faults' = faults
          /\ view'.generationStatus = view.generationStatus]_vars

\* An update was delivered while the check started less than ThrottleMs ago was
\* still running, and no second check was started.
C22_Witness ==
  /\ view.delivered = 1
  /\ clock - view.lastStatusCheck < ThrottleMs
  /\ chk[1].pc = "package" /\ chk[1].kind = "manual"
  /\ chk[2].pc = "idle"

\* C23: a mounted view holds exactly one subscription, also after the effect
\* was run again because the status changed, and a view that was left or
\* reloaded holds none.
C23_OneSubscription ==
  view.subscriptions = IF view.mounted THEN 1 ELSE 0

\* The status has changed twice (loaded as in_progress, then completed), so the
\* effect has run three times, and one subscription is held.
C23_Witness ==
  /\ view.mounted
  /\ view.generationStatus = viewCompletedStatus
  /\ chk[0].pc = "done"
  /\ \E i \in 1..2 : chk[i].pc = "update" /\ chk[i].previous = "in_progress"
  /\ view.subscriptions = 1

\* The step sets packageReadyNotified back to false.
NotifiedReset == view.packageReadyNotified /\ ~view'.packageReadyNotified

\* The step is handleResumeGeneration.
ResumeStep == view.pending = "none" /\ view'.pending = "resume"

\* The step is handleGeneratePackage.
GenerateStep == view.pending = "none" /\ view'.pending = "generate"

\* C24 (as stated): packageReadyNotified, once set, is set back to false only
\* by an explicit resume action.
C24_ResetOnlyByResume == [][NotifiedReset => ResumeStep]_vars

\* C24: packageReadyNotified, once set, is set back to false only by
\* handleResumeGeneration, by handleGeneratePackage or by fetchMystery finding
\* the status completed; a status check or a notifier event never resets it.
C24_ResetOnlyByHandlersOrLoad ==
  [][NotifiedReset => ResumeStep \/ GenerateStep \/ chk[0].pc = "status"]_vars

\* The notification was shown, and the flag is false again.
C24_Witness ==
  /\ view.toasts = 1
  /\ ~view.packageReadyNotified
  /\ view.pending \in {"resume", "generate"}

\* The text occurs in the guide.
Occurs(text, content) ==
  \E k \in 1..(Len(content) - Len(text) + 1) :
    SubSeq(content, k, k + Len(text) - 1) = text

\* C25 (as stated): the guide contains every present text field of the
\* character, the accomplice-branch fields included.
C25_EveryFieldInGuide ==
  guide # NotBuilt =>
    \A f \in AccompliceFields : character[f] # <<>> => Occurs(character[f], guide)

\* The conversation has a row, and its latest row is stored as completed.
StoredCompleted ==
  /\ LatestIds(packages, "c1") # {}
  /\ \A i \in LatestIds(packages, "c1") :
       packages[i].generation_status.status = "completed"

\* The step is one of the trigger's or of the reconciler's.
OwnStep == gen' # gen \/ rec' # rec

\* C26 (as stated): once the latest row is stored as completed, no step of the
\* trigger or of the reconciler leaves it with another status, also when the
\* external service completed the row while a call was in flight or when the
\* trigger's guard read failed.
C26_CompletionRatchet ==
  [][StoredCompleted /\ OwnStep => StoredCompleted']_vars

\* The step is one of the view's load or checks.
ViewStep == chk' # chk

\* The step makes row i completed.
Completes(i) ==
  /\ packages[i].generation_status.status # "completed"
  /\ packages'[i].generation_status.status = "completed"

\* C27 (as stated): a write of the view's check or of the reconciler it calls
\* that sets a row's stored status to completed happens only when the row has a
\* title, a host guide and at least one character.
C27_CompletedOnlyWhenComplete ==
  [][ViewStep =>
       \A i \in DOMAIN packages : Completes(i) => RowContentComplete(packages'[i])]_vars

\* The latest row was stored as completed while the view was mounted, and every
\* update event so far has been delivered to the view.
CompletionDelivered ==
  /\ view.mounted
  /\ \E i \in LatestIds(packages, "c1") :
       /\ packages[i].generation_status.status = "completed"
       /\ packages[i].generation_completed_at > 1
  /\ view.delivered = Events

\* C28 (as stated): when the latest row is stored as completed and the event has
\* been delivered to the mounted view, the view's status eventually is
\* completed with no manual refresh needed, unless the view is left or a store
\* request fails.
C28_EventuallyCompleted ==
  [](CompletionDelivered =>
       <>(view.generationStatus.status = "completed" \/ ~view.mounted \/ faults > 0))

\* The step is the reconciler's corrective update, answered without error.
Corrected == rec.pc = "correct" /\ rec'.pc = "idle" /\ faults' = faults

\* C29 (as stated): the corrective write leaves every row of the conversation
\* other than the latest with the stored status and the completion timestamp it
\* had.
C29_OnlyLatestCorrected ==
  [][Corrected =>
       \A i \in DOMAIN packages :
         i \notin LatestIds(packages, "c1") =>
           /\ packages'[i].generation_status = packages[i].generation_status
           /\ packages'[i].generation_completed_at = packages[i].generation_completed_at]_vars

\* The call of caller p has rejected with no package id known.
RejectedEarly(p) == Rejected(p) /\ gen[p].packageId = 0

\* The step is the one in which the call of caller p rejects with no package id
\* known.
RejectsEarly(p) == gen[p].pc # "idle" /\ gen'[p].pc = "idle" /\ gen'[p].result = "rejected"
                   /\ gen'[p].packageId = 0

\* C30: a call that fails with no package id known (the conversation fetch, the
\* package lookup or the insert of the row fails) has made no outbound call and
\* no write other than the insert that failed, rejects, and in rejecting leaves
\* every row and the list of outbound calls as they were.
C30_EarlyFailureNoEffects ==
  /\ [](\A p \in Callers :
          RejectedEarly(p) =>
            /\ gen[p].sent = <<>>
            /\ \A k \in DOMAIN gen[p].log :
                 gen[p].log[k].op = "insert" /\ ~gen[p].log[k].ok)
  /\ [][\A p \in Callers :
          RejectsEarly(p) => packages' = packages /\ triggerCalls' = triggerCalls]_vars
  /\ [][\A p \in Callers :
          gen[p].pc \in {"conversation", "lookup"} /\ gen'[p] # gen[p] /\ faults' # faults
            => RejectsEarly(p)]_vars

\* A call on a conversation whose row is failed passed the guard and then
\* failed on the conversation fetch or on the lookup: it has rejected, the row
\* is as it was and no outbound call was made.
C30_Witness ==
  \E p \in Callers :
    /\ RejectedEarly(p)
    /\ gen[p].atGuard = "failed"
    /\ gen[p].log = <<>>
    /\ Len(packages) = 1
    /\ packages[1].generation_status = failedUnexpectedStatus
    /\ packages[1].updated_at = 1
    /\ triggerCalls = <<>>

====
